---------------------------- MODULE Spec2Model ----------------------------
(***************************************************************************)
(* A model of faiNumber/fnBinaryUtil.js: the fnBinaryUtil namespace, its   *)
(* version-guarded declaration, and its three functions toNumber,          *)
(* compareAsNumber and numberOrSmaller.                                    *)
(*                                                                         *)
(* A JavaScript value is a record [type, chars]: type is what typeof       *)
(* yields, chars the string's UTF-16 code units (empty for a non-string).  *)
(* A JavaScript number that holds an integer is a pair <<hi, lo>> of       *)
(* decimal limbs standing for hi * 10^9 + lo, because 2^53 does not fit    *)
(* the model checker's integers; the arithmetic on it is that of an IEEE   *)
(* double (exact up to 2^53, round-half-to-even above).                    *)
(***************************************************************************)
EXTENDS Integers, Sequences, FiniteSets, TLC

VARIABLES ns, hasModule, exports, lastInclude,
          pc, fn, args, start, out, ret, cmp

vars == <<ns, hasModule, exports, lastInclude, pc, fn, args, start, out, ret, cmp>>

---------------------------------------------------------------------------
(* Bounds of the model. *)

\* longest run of arbitrary characters in front of the filler of an input
MaxHead == 1
\* longest run of arbitrary characters behind the filler of an input
MaxTail == 1
\* the filler lengths tried lie within Slack of the 53-digit cutoff
Slack == 1
\* longest short filler of a comparator operand
MaxCmpFill == 2
\* highest file version a previously included namespace may carry
MaxVersion == 2

---------------------------------------------------------------------------
(* Program constants. *)

\* length - start > 53
MaxBits == 53
\* charCodeAt(start) === 48, charCodeAt(start) ^ 48
ZeroCode == 48
\* fnBinaryUtil.fileversion = 1
FileVersion == 1
\* fnBinaryUtil.fileversion < 1
GuardVersion == 1
\* Number.MAX_SAFE_INTEGER(9007199254740991), as limbs
MAX_SAFE_INTEGER == <<9007199, 254740991>>

---------------------------------------------------------------------------
(* Numbers: integers held in IEEE doubles, as two decimal limbs. *)

Base == 10^9

Big(n) == <<n \div Base, n % Base>>

BigLT(a, b) == a[1] < b[1] \/ (a[1] = b[1] /\ a[2] < b[2])

BigGT(a, b) == BigLT(b, a)

BigLE(a, b) == ~BigLT(b, a)

BigAdd(a, b) ==
    LET t == a[2] + b[2]
    IN  <<a[1] + b[1] + (t \div Base), t % Base>>

\* 2^53 and 2^54: below 2^53 every integer is a double, from 2^53 to 2^54
\* only the even ones are, from 2^54 on only multiples of 4 (or coarser)
TwoTo53 == BigAdd(MAX_SAFE_INTEGER, Big(1))

TwoTo54 == BigAdd(TwoTo53, TwoTo53)

\* a slip: out + c, the doubling forgotten
DblMulAdd_NoDoubling(o, c) == BigAdd(o, Big(c))

\* (out * 2) + c as the double arithmetic computes it: the product of a
\* double by 2 is exact; the sum is rounded to the nearest double, ties to
\* the even mantissa
DblMulAdd(o, c) ==
    LET m == BigAdd(o, o)
    IN  IF c = 0 THEN m
        ELSE IF BigLT(m, TwoTo53) THEN BigAdd(m, Big(c))
        ELSE IF BigLT(m, TwoTo54)
             THEN IF m[2] % 4 = 0 THEN m ELSE BigAdd(m, Big(2))
        ELSE m

---------------------------------------------------------------------------
(* Bit operations on character codes. *)

RECURSIVE Xor(_, _)
Xor(a, b) ==
    IF a = 0 THEN b
    ELSE IF b = 0 THEN a
    ELSE (((a % 2) + (b % 2)) % 2) + (2 * Xor(a \div 2, b \div 2))

---------------------------------------------------------------------------
(* Values. *)

Str(s) == [type |-> "string", chars |-> s]

NonStrings == {[type |-> "number", chars |-> <<>>],
               [type |-> "undefined", chars |-> <<>>]}

\* results of a call
Num(v) == [kind |-> "number", val |-> v]

Undefined == [kind |-> "undefined", val |-> <<0, 0>>]

Thrown == [kind |-> "throw: Not a string", val |-> <<0, 0>>]

Cmp(i) == [kind |-> "number", val |-> i]

UndefinedCmp == [kind |-> "undefined", val |-> 0]

ThrownCmp == [kind |-> "throw: Not a string", val |-> 0]

---------------------------------------------------------------------------
(* toNumber as a function of its argument. *)

\* start < length && input.charCodeAt(start) === 48
AtZero(s, i) == i < Len(s) /\ s[i + 1] = ZeroCode

\* while ( start < length && input.charCodeAt(start) === 48 ) start++;
\* the index the loop stops at: the first one it does not step over
SkipZeros(s) ==
    CHOOSE i \in 0..Len(s) :
        ~AtZero(s, i) /\ \A j \in 0..(i - 1) : AtZero(s, j)

\* a slip: >= for >
TooLong_OffByOne(len, i) == len - i >= MaxBits

\* a slip: the cutoff one digit too far
TooLong_Lenient(len, i) == len - i > MaxBits + 1

\* a slip: the whole length tested, leading zeros included
TooLong_Total(len, i) == len > MaxBits

\* if ( length - start > 53 ) return;
TooLong(len, i) == len - i > MaxBits

\* c = input.charCodeAt(start) ^ 48
Digit(ch) == Xor(ch, ZeroCode)

\* a slip: the digit bound one too high
BadDigit_Two(c) == c > 2

\* if ( c > 1 ) return;
BadDigit(c) == c > 1

\* one iteration of the for loop on the character ch: acc is the
\* accumulator, or undefined once an iteration has returned
Iteration(acc, ch) ==
    IF acc = Undefined THEN Undefined
    ELSE LET c == Digit(ch)
         IN  IF BadDigit(c) THEN Undefined
             ELSE Num(DblMulAdd(acc.val, c))

\* for ( ; start < length; start++){ ... } return out;
\* the iterations on the characters lo..hi, in order, composed by halves
RECURSIVE Iterate(_, _, _, _)
Iterate(s, lo, hi, acc) ==
    IF lo > hi THEN acc
    ELSE IF lo = hi THEN Iteration(acc, s[lo])
    ELSE LET mid == (lo + hi) \div 2
             left == Iterate(s, lo, mid, acc)
         IN  IF left = Undefined THEN Undefined
             ELSE Iterate(s, mid + 1, hi, left)

\* a slip: the type check left out
NotAString_Never(input) == FALSE

\* typeof input !== "string"
NotAString(input) == input.type # "string"

toNumber(input) ==
    IF NotAString(input) THEN Thrown
    ELSE LET s == input.chars
             length == Len(s)
         IN  IF length = 0 THEN Undefined
             ELSE LET i == SkipZeros(s)
                  IN  IF TooLong(length, i) THEN Undefined
                      ELSE Iterate(s, i + 1, length, Num(Big(0)))

---------------------------------------------------------------------------
(* The comparators as functions of their arguments. *)

\* if ( n1 > n2 ) return 1; else if ( n1 < n2 ) return -1; return 0;
Order(n1, n2) ==
    IF BigGT(n1.val, n2.val) THEN Cmp(1)
    ELSE IF BigLT(n1.val, n2.val) THEN Cmp(-1)
    ELSE Cmp(0)

\* a slip: && for ||
EitherUndefined_Both(n1, n2) == n1 = Undefined /\ n2 = Undefined

\* n1 === undefined || n2 === undefined
EitherUndefined(n1, n2) == n1 = Undefined \/ n2 = Undefined

compareAsNumber(firstNumber, secondNumber) ==
    LET n1 == toNumber(firstNumber)
        n2 == toNumber(secondNumber)
    IN  IF n1 = Thrown \/ n2 = Thrown THEN ThrownCmp
        ELSE IF EitherUndefined(n1, n2) THEN UndefinedCmp
        ELSE Order(n1, n2)

\* if ( secondNumber.length === 0 ) return 0;
\* if ( n2 !== undefined ) return -1; else return 1;
FirstEmpty(secondNumber, n2) ==
    IF Len(secondNumber.chars) = 0 THEN Cmp(0)
    ELSE IF n2 # Undefined THEN Cmp(-1)
    ELSE Cmp(1)

\* a slip: the two results exchanged
SecondEmpty_Swapped(n1) == IF n1 # Undefined THEN Cmp(-1) ELSE Cmp(1)

\* if ( n1 !== undefined ) return 1; else return -1;
SecondEmpty(n1) == IF n1 # Undefined THEN Cmp(1) ELSE Cmp(-1)

\* a slip: two undefined parses ordered instead of tied
OneUndefined_NoTie(n1, n2) == IF n1 = Undefined THEN Cmp(-1) ELSE Cmp(1)

\* if ( n1 === undefined ){ if ( n2 === undefined ) return 0;
\* else return -1; } else if ( n2 === undefined ) return 1;
OneUndefined(n1, n2) ==
    IF n1 = Undefined
    THEN IF n2 = Undefined THEN Cmp(0) ELSE Cmp(-1)
    ELSE Cmp(1)

numberOrSmaller(firstNumber, secondNumber) ==
    LET n1 == toNumber(firstNumber)
        n2 == toNumber(secondNumber)
    IN  IF n1 = Thrown \/ n2 = Thrown THEN ThrownCmp
        ELSE IF Len(firstNumber.chars) = 0
             THEN FirstEmpty(secondNumber, n2)
        ELSE IF Len(secondNumber.chars) = 0 THEN SecondEmpty(n1)
        ELSE IF n1 = Undefined \/ n2 = Undefined THEN OneUndefined(n1, n2)
        ELSE Order(n1, n2)

---------------------------------------------------------------------------
(* The arguments tried: a run of arbitrary characters, a filler of one     *)
(* repeated binary digit whose length is 0 or near the 53-digit cutoff,    *)
(* and another run of arbitrary characters.                                *)

\* '/', '0', '1', '2': the binary digits and their neighbours in the code
\* table
Alphabet == {ZeroCode - 1, ZeroCode, ZeroCode + 1, ZeroCode + 2}

Strs(n) == UNION {[1..k -> Alphabet] : k \in 0..n}

Rep(ch, n) == [i \in 1..n |-> ch]

Gen(H, T, N) ==
    {h \o Rep(f, n) \o t :
        h \in Strs(H), t \in Strs(T), f \in {ZeroCode, ZeroCode + 1}, n \in N}

\* the strings the test suite names: "", "0", "000", "00000", "+0", "-0",
\* "-000", "`"
TestStrings ==
    {<<>>, <<48>>, <<48, 48, 48>>, <<48, 48, 48, 48, 48>>, <<43, 48>>,
     <<45, 48>>, <<45, 48, 48, 48>>, <<96>>}

FillLens == {0} \cup ((MaxBits - Slack)..(MaxBits + Slack))

ParseInputs ==
    {Str(s) : s \in Gen(MaxHead, MaxTail, FillLens) \cup TestStrings}
        \cup NonStrings

CmpInputs ==
    {Str(s) : s \in Gen(1, 0, (0..MaxCmpFill) \cup {MaxBits, MaxBits + 1})
                       \cup TestStrings}
        \cup NonStrings

---------------------------------------------------------------------------
(* The namespace object and its declaration. *)

Members == {"toNumber", "compareAsNumber", "numberOrSmaller"}

\* the global fnBinaryUtil before any declaration: undefined
NoNamespace ==
    [defined |-> FALSE, id |-> 0, fileversion |-> 0, frozen |-> FALSE,
     toNumber |-> "none", compareAsNumber |-> "none",
     numberOrSmaller |-> "none"]

\* a namespace left by the inclusion of another version of the file
Foreign(v, fr) ==
    [defined |-> TRUE, id |-> 0, fileversion |-> v, frozen |-> fr,
     toNumber |-> "other", compareAsNumber |-> "other",
     numberOrSmaller |-> "other"]

\* a slip: <= for <, so that an equal version is declared again
IncludeGuard_Equal(n) ==
    ~n.defined \/ (n.defined /\ n.fileversion <= GuardVersion)

\* if ( !fnBinaryUtil || (fnBinaryUtil && fnBinaryUtil.fileversion < 1) )
IncludeGuard(n) ==
    ~n.defined \/ (n.defined /\ n.fileversion < GuardVersion)

\* Object.freeze(fnBinaryUtil)
ObjectFreeze(o) == [o EXCEPT !.frozen = TRUE]

\* a slip: Object.freeze left out
Declare_NotFrozen(n) ==
    [defined |-> TRUE, id |-> n.id + 1, fileversion |-> FileVersion,
     frozen |-> FALSE, toNumber |-> "v1", compareAsNumber |-> "v1",
     numberOrSmaller |-> "v1"]

\* var fnBinaryUtil = {}; fnBinaryUtil.fileversion = 1; ... the three
\* functions ...; Object.freeze(fnBinaryUtil): a new object
Declare(n) ==
    ObjectFreeze(
        [defined |-> TRUE, id |-> n.id + 1, fileversion |-> FileVersion,
         frozen |-> FALSE, toNumber |-> "v1", compareAsNumber |-> "v1",
         numberOrSmaller |-> "v1"])

\* an assignment to a member of an object: refused when the object is frozen
Assign(o, m, v) == IF o.frozen THEN o ELSE [o EXCEPT ![m] = v]

---------------------------------------------------------------------------
(* The state.                                                              *)
(*   ns           the global fnBinaryUtil                                  *)
(*   hasModule    whether the host provides module.exports                 *)
(*   exports      module.exports                                           *)
(*   lastInclude  which branch the latest inclusion of the file took       *)
(*   pc           "idle", or the position of the running call              *)
(*   fn, args     the function called and its arguments                    *)
(*   start, out   toNumber's locals                                        *)
(*   ret          what toNumber returned or threw                          *)
(*   cmp          what a comparator returned or threw                      *)
(***************************************************************************)

Init ==
    /\ hasModule \in BOOLEAN
    /\ ns \in (IF hasModule THEN {NoNamespace}
               ELSE {NoNamespace} \cup
                    {Foreign(v, fr) : v \in (0..MaxVersion) \ {FileVersion},
                                      fr \in BOOLEAN})
    /\ exports = NoNamespace
    /\ lastInclude = "none"
    /\ pc = "idle"
    /\ fn = "none"
    /\ args = <<>>
    /\ start = 0
    /\ out = Big(0)
    /\ ret = Undefined
    /\ cmp = UndefinedCmp

\* one inclusion of fnBinaryUtil.js
Include ==
    /\ pc = "idle"
    /\ ns' = (IF IncludeGuard(ns) THEN Declare(ns) ELSE ns)
    /\ lastInclude' = (IF IncludeGuard(ns) THEN "declared" ELSE "skipped")
    /\ exports' = (IF hasModule THEN ns' ELSE exports)
    /\ UNCHANGED <<hasModule, pc, fn, args, start, out, ret, cmp>>

\* some script assigns to a member of the namespace
Tamper ==
    /\ pc = "idle"
    /\ ns.defined
    /\ \/ \E m \in Members : ns' = Assign(ns, m, "tampered")
       \/ \E v \in 0..MaxVersion : ns' = Assign(ns, "fileversion", v)
    /\ exports' = (IF exports.defined /\ exports.id = ns.id THEN ns'
                   ELSE exports)
    /\ UNCHANGED <<hasModule, lastInclude, pc, fn, args, start, out, ret, cmp>>

\* fnBinaryUtil.toNumber(input), up to the declaration of out
CallToNumber ==
    /\ pc = "idle"
    /\ ns.defined /\ ns.toNumber = "v1"
    /\ \E input \in ParseInputs :
        /\ fn' = "toNumber"
        /\ args' = <<input>>
        /\ start' = 0
        /\ out' = Big(0)
        /\ IF NotAString(input)
           THEN pc' = "done" /\ ret' = Thrown
           ELSE IF Len(input.chars) = 0
                THEN pc' = "done" /\ ret' = Undefined
                ELSE pc' = "skip" /\ ret' = Undefined
    /\ UNCHANGED <<ns, hasModule, exports, lastInclude, cmp>>

\* one test of the while loop, and the length check behind it
SkipStep ==
    /\ pc = "skip"
    /\ LET s == args[1].chars
       IN  IF AtZero(s, start)
           THEN start' = start + 1 /\ UNCHANGED <<pc, ret>>
           ELSE IF TooLong(Len(s), start)
                THEN pc' = "done" /\ ret' = Undefined /\ UNCHANGED start
                ELSE pc' = "loop" /\ UNCHANGED <<start, ret>>
    /\ UNCHANGED <<ns, hasModule, exports, lastInclude, fn, args, out, cmp>>

\* one test of the for loop: an iteration, or the return behind the loop
LoopStep ==
    /\ pc = "loop"
    /\ LET s == args[1].chars
       IN  IF start < Len(s)
           THEN LET c == Digit(s[start + 1])
                IN  IF BadDigit(c)
                    THEN /\ pc' = "done"
                         /\ ret' = Undefined
                         /\ UNCHANGED <<start, out>>
                    ELSE /\ out' = DblMulAdd(out, c)
                         /\ start' = start + 1
                         /\ UNCHANGED <<pc, ret>>
           ELSE pc' = "done" /\ ret' = Num(out) /\ UNCHANGED <<start, out>>
    /\ UNCHANGED <<ns, hasModule, exports, lastInclude, fn, args, cmp>>

\* fnBinaryUtil.compareAsNumber(firstNumber, secondNumber)
CallCompareAsNumber ==
    /\ pc = "idle"
    /\ ns.defined /\ ns.compareAsNumber = "v1" /\ ns.toNumber = "v1"
    /\ \E firstNumber \in CmpInputs, secondNumber \in CmpInputs :
        /\ fn' = "compareAsNumber"
        /\ args' = <<firstNumber, secondNumber>>
        /\ cmp' = compareAsNumber(firstNumber, secondNumber)
    /\ pc' = "done"
    /\ UNCHANGED <<ns, hasModule, exports, lastInclude, start, out, ret>>

\* fnBinaryUtil.numberOrSmaller(firstNumber, secondNumber)
CallNumberOrSmaller ==
    /\ pc = "idle"
    /\ ns.defined /\ ns.numberOrSmaller = "v1" /\ ns.toNumber = "v1"
    /\ \E firstNumber \in CmpInputs, secondNumber \in CmpInputs :
        /\ fn' = "numberOrSmaller"
        /\ args' = <<firstNumber, secondNumber>>
        /\ cmp' = numberOrSmaller(firstNumber, secondNumber)
    /\ pc' = "done"
    /\ UNCHANGED <<ns, hasModule, exports, lastInclude, start, out, ret>>

\* the caller takes the result; the call's locals are gone
Return ==
    /\ pc = "done"
    /\ pc' = "idle"
    /\ fn' = "none"
    /\ args' = <<>>
    /\ start' = 0
    /\ out' = Big(0)
    /\ ret' = Undefined
    /\ cmp' = UndefinedCmp
    /\ UNCHANGED <<ns, hasModule, exports, lastInclude>>

Next ==
    \/ Include
    \/ Tamper
    \/ CallToNumber
    \/ SkipStep
    \/ LoopStep
    \/ CallCompareAsNumber
    \/ CallNumberOrSmaller
    \/ Return

Spec == Init /\ [][Next]_vars

---------------------------------------------------------------------------
(* What the claims speak of, stated without the program's operators.       *)

Zero == ZeroCode

One == ZeroCode + 1

\* exact integers of up to three decimal limbs, most significant first
Wide(a) == <<0, a[1], a[2]>>

WideAdd(a, b) ==
    LET t3 == a[3] + b[3]
        t2 == a[2] + b[2] + (t3 \div Base)
    IN  <<a[1] + b[1] + (t2 \div Base), t2 % Base, t3 % Base>>

WideLT(a, b) ==
    \/ a[1] < b[1]
    \/ a[1] = b[1] /\ a[2] < b[2]
    \/ a[1] = b[1] /\ a[2] = b[2] /\ a[3] < b[3]

WideDouble(a) == WideAdd(a, a)

\* a doubled n times, the doublings composed by halves
RECURSIVE DoubleTimes(_, _)
DoubleTimes(a, n) ==
    IF n = 0 THEN a
    ELSE IF n = 1 THEN WideDouble(a)
    ELSE LET half == DoubleTimes(a, n \div 2)
         IN  IF half = <<0, 0, 0>> THEN half
             ELSE DoubleTimes(half, n - (n \div 2))

Pow2(k) == DoubleTimes(<<0, 0, 1>>, k)

\* the standard base-2 value of a string of '0' and '1': the sum of the
\* weights 2^(Len(s) - i) of the positions i that hold '1'
RECURSIVE WeightSum(_, _, _)
WeightSum(s, lo, hi) ==
    IF lo > hi THEN <<0, 0, 0>>
    ELSE IF lo = hi
         THEN IF s[lo] = One THEN Pow2(Len(s) - lo) ELSE <<0, 0, 0>>
    ELSE LET mid == (lo + hi) \div 2
         IN  WideAdd(WeightSum(s, lo, mid), WeightSum(s, mid + 1, hi))

BinValue(s) == WeightSum(s, 1, Len(s))

IsString(v) == v.type = "string"

IsBinary(s) == \A i \in 1..Len(s) : s[i] \in {Zero, One}

\* the number of leading '0' characters
LeadZeros(s) ==
    Cardinality({i \in 1..Len(s) : \A j \in 1..i : s[j] = Zero})

\* the length after removing all leading '0' characters
SigLen(s) == Len(s) - LeadZeros(s)

DropFirst(s, k) == SubSeq(s, k + 1, Len(s))

\* a call of toNumber has returned or thrown
ToNumberDone == pc = "done" /\ fn = "toNumber"

Input == args[1].chars

---------------------------------------------------------------------------
(* Consistency of the two renderings of toNumber: the stepwise one and     *)
(* the function.                                                           *)

StepsAgree == ToNumberDone => ret = toNumber(args[1])

TypeOK ==
    /\ pc \in {"idle", "skip", "loop", "done"}
    /\ fn \in {"none", "toNumber", "compareAsNumber", "numberOrSmaller"}
    /\ lastInclude \in {"none", "declared", "skipped"}
    /\ ret.kind \in {"number", "undefined", "throw: Not a string"}
    /\ cmp.kind \in {"number", "undefined", "throw: Not a string"}
    /\ start \in 0..(MaxHead + MaxTail + MaxBits + Slack)

---------------------------------------------------------------------------
\* C1: for every non-empty string s of '0' and '1' whose significant length
\* is at most 53, toNumber(s) is the standard base-2 value of s, and
\* toNumber of s with any number of '0' prepended is that same value, also
\* when the total length exceeds 53.  Stated on the argument t of a finished
\* call: for every way to read t as zeros prepended to a non-empty s, the
\* result is the base-2 value of s.
C1_BinaryValue ==
    (ToNumberDone /\ IsString(args[1]) /\ Len(Input) > 0 /\ IsBinary(Input)
        /\ SigLen(Input) <= MaxBits)
    => \A k \in 0..(Len(Input) - 1) :
          (\A j \in 1..k : Input[j] = Zero)
          => /\ ret.kind = "number"
             /\ Wide(ret.val) = BinValue(DropFirst(Input, k))

\* a string of 53 significant digits behind prepended zeros, longer than 53
\* in all, has parsed to a nonzero number
C1_Witness ==
    /\ ToNumberDone /\ IsString(args[1]) /\ IsBinary(Input)
    /\ Len(Input) > MaxBits /\ SigLen(Input) = MaxBits
    /\ ret.kind = "number" /\ Wide(ret.val) = BinValue(Input)
    /\ ret.val # Big(0)

---------------------------------------------------------------------------
\* C2: the cutoff is exact at the safe-integer bound: for every non-empty
\* string of '0' and '1', toNumber returns undefined iff the string's base-2
\* value exceeds 9007199254740991 = 2^53 - 1, iff its significant length
\* exceeds 53; 53 ones parse to 9007199254740991 and 54 ones to undefined.
C2_ExactCutoff ==
    /\ WideAdd(Wide(MAX_SAFE_INTEGER), <<0, 0, 1>>) = Pow2(MaxBits)
    /\ (ToNumberDone /\ IsString(args[1]) /\ Len(Input) > 0
            /\ IsBinary(Input))
       => /\ ret = Undefined
             <=> WideLT(Wide(MAX_SAFE_INTEGER), BinValue(Input))
          /\ ret = Undefined <=> SigLen(Input) > MaxBits
          /\ ret # Undefined => ret.kind = "number"
          /\ Input = Rep(One, MaxBits) => ret = Num(MAX_SAFE_INTEGER)
          /\ Input = Rep(One, MaxBits + 1) => ret = Undefined

\* the smallest value over the bound, 2^53, has been refused
C2_Witness ==
    /\ ToNumberDone /\ IsString(args[1]) /\ IsBinary(Input)
    /\ BinValue(Input) = Pow2(MaxBits)
    /\ ret = Undefined

\* C3: for every string that holds a character other than '0' and '1',
\* toNumber returns undefined and never a number, wherever the character
\* stands; no partial value of the digits before it is returned.
C3_BadCharacter ==
    (ToNumberDone /\ IsString(args[1]) /\ ~IsBinary(Input))
    => ret = Undefined /\ ret.kind # "number"

\* a bad character behind accepted digits: the accumulator holds their
\* value, and undefined was returned
C3_Witness ==
    /\ ToNumberDone /\ IsString(args[1]) /\ ~IsBinary(Input)
    /\ out # Big(0)
    /\ ret = Undefined

\* C4: toNumber("") is undefined, not zero; every non-empty string of '0'
\* only, of any length, yields the number 0; and undefined is never what a
\* valid string yields.
C4_EmptyAndZero ==
    (ToNumberDone /\ IsString(args[1]))
    => /\ Len(Input) = 0 => ret = Undefined /\ ret # Num(Big(0))
       /\ (Len(Input) > 0 /\ \A i \in 1..Len(Input) : Input[i] = Zero)
          => ret = Num(Big(0))
       /\ (Len(Input) > 0 /\ IsBinary(Input) /\ SigLen(Input) <= MaxBits)
          => ret # Undefined /\ ret.kind = "number"

\* more than 53 zeros have parsed to the number 0
C4_Witness ==
    /\ ToNumberDone /\ IsString(args[1])
    /\ Len(Input) > MaxBits
    /\ \A i \in 1..Len(Input) : Input[i] = Zero
    /\ ret = Num(Big(0))

\* C9: in every step of toNumber's loop the accumulator is a non-negative
\* integer of at most 2^53 - 1: the loop is entered only with at most 53
\* significant characters, and after k accepted digits the accumulator is
\* below 2^k and is the exact value of those digits, so nothing is rounded
\* or wraps, and a returned number is within the bound.
C9_Accumulator ==
    /\ (fn = "toNumber" /\ pc = "skip") => out = Big(0)
    /\ (fn = "toNumber" /\ pc = "loop")
       => LET lz == LeadZeros(Input)
              k == start - lz
          IN  /\ SigLen(Input) <= MaxBits
              /\ k \in 0..MaxBits
              /\ out[1] >= 0 /\ out[2] \in 0..(Base - 1)
              /\ BigLE(out, MAX_SAFE_INTEGER)
              /\ WideLT(Wide(out), Pow2(k))
              /\ Wide(out) = BinValue(SubSeq(Input, lz + 1, start))
    /\ ToNumberDone
       => /\ BigLE(out, MAX_SAFE_INTEGER)
          /\ ret.kind = "number" => ret = Num(out)

\* the loop has accepted 53 digits and holds 2^53 - 1
C9_Witness ==
    /\ fn = "toNumber" /\ pc = "loop"
    /\ start - LeadZeros(Input) = MaxBits
    /\ out = MAX_SAFE_INTEGER

---------------------------------------------------------------------------
(* The comparators' claims. *)

CompareDone == pc = "done" /\ fn = "compareAsNumber"

LenientDone == pc = "done" /\ fn = "numberOrSmaller"

First == args[1]

Second == args[2]

BothStrings == IsString(First) /\ IsString(Second)

\* 1, 0 or -1 as the number x is greater than, equal to or less than y
Sign(x, y) ==
    IF WideLT(Wide(y), Wide(x)) THEN 1
    ELSE IF WideLT(Wide(x), Wide(y)) THEN -1
    ELSE 0

\* C5: compareAsNumber(a, b) is undefined whenever toNumber(a) or
\* toNumber(b) is undefined, in either position, and otherwise 1, 0 or -1
\* as toNumber(a) is greater than, equal to or less than toNumber(b);
\* compareAsNumber("0", "00000") = 0, and compareAsNumber("", "0") and
\* compareAsNumber("0", "") are undefined.
C5_CompareAsNumber ==
    (CompareDone /\ BothStrings)
    => LET n1 == toNumber(First)
           n2 == toNumber(Second)
       IN  /\ (n1 = Undefined \/ n2 = Undefined) => cmp = UndefinedCmp
           /\ (n1.kind = "number" /\ n2.kind = "number")
              => cmp = Cmp(Sign(n1.val, n2.val))
           /\ (First.chars = <<Zero>>
                  /\ Second.chars = <<Zero, Zero, Zero, Zero, Zero>>)
              => cmp = Cmp(0)
           /\ (First.chars = <<>> /\ Second.chars = <<Zero>>)
              => cmp = UndefinedCmp
           /\ (First.chars = <<Zero>> /\ Second.chars = <<>>)
              => cmp = UndefinedCmp

\* a valid first operand against an oversized binary second one
C5_Witness ==
    /\ CompareDone /\ BothStrings
    /\ toNumber(First).kind = "number"
    /\ IsBinary(Second.chars) /\ SigLen(Second.chars) > MaxBits
    /\ cmp = UndefinedCmp

\* the tier of a string: 0 non-empty and rejected by toNumber, 1 empty,
\* 2 parsed
Tier(v) ==
    IF Len(v.chars) = 0 THEN 1
    ELSE IF toNumber(v) = Undefined THEN 0
    ELSE 2

\* the comparison of two strings by tier, and by value within tier 2
TierOrder(a, b) ==
    IF Tier(a) < Tier(b) THEN -1
    ELSE IF Tier(a) > Tier(b) THEN 1
    ELSE IF Tier(a) = 2 THEN Sign(toNumber(a).val, toNumber(b).val)
    ELSE 0

\* C6: numberOrSmaller(a, b) for strings always returns 1, 0 or -1, never
\* undefined, and is the comparison of the operands' tiers, lowest to
\* highest: non-empty rejected strings < the empty string < parsed strings;
\* two parsed strings compare by value, two rejected ones are equal whatever
\* they hold, two empty ones are equal.
C6_NumberOrSmaller ==
    (LenientDone /\ BothStrings)
    => /\ cmp.kind = "number"
       /\ cmp.val \in {-1, 0, 1}
       /\ cmp.val = TierOrder(First, Second)

\* two different rejected strings, one malformed and one oversized, tied
C6_Witness ==
    /\ LenientDone /\ BothStrings
    /\ Tier(First) = 0 /\ Tier(Second) = 0
    /\ ~IsBinary(First.chars) /\ IsBinary(Second.chars)
    /\ cmp = Cmp(0)

\* the strings among the comparators' operands
CmpStrings == {v \in CmpInputs : IsString(v)}

\* numberOrSmaller on every pair of them
Lenient ==
    [a \in CmpStrings |-> [b \in CmpStrings |-> numberOrSmaller(a, b)]]

\* C7: numberOrSmaller is a total order over all strings: for all strings
\* a, b, c, numberOrSmaller(a, a) = 0, numberOrSmaller(a, b) =
\* -numberOrSmaller(b, a), and numberOrSmaller(a, b) <= 0 and
\* numberOrSmaller(b, c) <= 0 imply numberOrSmaller(a, c) <= 0.  Stated on
\* the operands a, b of a finished call and every third string c.
C7_TotalOrder ==
    (LenientDone /\ BothStrings)
    => /\ cmp.kind = "number"
       /\ Lenient[First][First] = Cmp(0)
       /\ Lenient[Second][First] = Cmp(0 - cmp.val)
       /\ \A c \in CmpStrings :
             (cmp.val <= 0 /\ Lenient[Second][c].val <= 0)
             => /\ Lenient[First][c].kind = "number"
                /\ Lenient[First][c].val <= 0

\* the chain of the three tiers: a malformed string below the empty string,
\* the empty string below "0", the malformed string below "0"
C7_Witness ==
    /\ LenientDone /\ BothStrings
    /\ ~IsBinary(First.chars) /\ Second.chars = <<>>
    /\ cmp = Cmp(-1)
    /\ Lenient[Second][Str(<<Zero>>)] = Cmp(-1)
    /\ Lenient[First][Str(<<Zero>>)] = Cmp(-1)

\* C8: toNumber throws "Not a string" for every argument that is not a
\* string, before doing anything else; compareAsNumber and numberOrSmaller
\* throw the same when either argument is not a string, whatever the other
\* is; and for string arguments none of the three ever throws.
C8_NotAString ==
    /\ ToNumberDone
       => /\ ret = Thrown <=> ~IsString(args[1])
          /\ ret = Thrown => start = 0 /\ out = Big(0)
    /\ (CompareDone \/ LenientDone)
       => (cmp = ThrownCmp <=> ~BothStrings)

\* numberOrSmaller with an empty first operand and a second one that is
\* not a string has thrown
C8_Witness ==
    /\ LenientDone
    /\ IsString(First) /\ Len(First.chars) = 0
    /\ ~IsString(Second)
    /\ cmp = ThrownCmp

---------------------------------------------------------------------------
\* C10: the namespace is declared only when none is declared yet or the one
\* found has a file version below 1: after an inclusion of the file the
\* namespace exists with fileversion >= 1; an inclusion that finds one with
\* fileversion >= 1 leaves that object and its functions unchanged; an
\* inclusion that finds none, or one with fileversion < 1, replaces it by
\* the version-1 namespace, a new and frozen object; and no later step
\* changes a member of the namespace this file declared.
C10_VersionGuard ==
    [][/\ Include
          => /\ ns'.defined /\ ns'.fileversion >= 1
             /\ (ns.defined /\ ns.fileversion >= 1) => ns' = ns
             /\ (~ns.defined \/ ns.fileversion < 1)
                => /\ ns'.id # ns.id
                   /\ ns'.fileversion = 1
                   /\ \A m \in Members : ns'[m] = "v1"
                   /\ ns'.frozen
       /\ (ns.defined /\ ns.id # 0) => ns' = ns
      ]_vars

\* the file has been included again over the namespace it declared itself
C10_Witness ==
    /\ lastInclude = "skipped"
    /\ ns.defined /\ ns.id # 0 /\ ns.fileversion = 1 /\ ns.frozen
    /\ \A m \in Members : ns[m] = "v1"

===========================================================================
